---- MODULE Spec2Model ----
(***************************************************************************)
(* A model of the rag-pipeline repository: the FastAPI server of main.py   *)
(* (POST /upload, POST /query, GET /health, the process-wide current_db    *)
(* slot, the temporary files and scratch index directories), the batch     *)
(* query command of query_data.py and the batch index build of             *)
(* create_database.py.  The Embedder, the vector store and the Completion  *)
(* API are external: a call to one of them is entered in one step and      *)
(* returns (or raises) in a later one.                                     *)
(***************************************************************************)
EXTENDS Integers, Sequences, FiniteSets, TLC

(* ----------------------------- bounds ---------------------------------- *)

\* Units of work the model runs: HTTP requests and CLI commands together.
NumJobs == 3

JobIds == 1..NumJobs

(* ------------------------ program constants ---------------------------- *)

\* k=3 of similarity_search_with_relevance_scores
TOP_K == 3

\* the 0.7 of the relevance gate, in hundredths
THRESHOLD == 70

\* the 200 of page_content[:200]
PREVIEW_LEN == 200

\* chunk_size=1000 of the text splitter
CHUNK_SIZE == 1000

MAX_UPLOAD_BYTES == 2 * 1024 * 1024

(* ------------------------------ paths ---------------------------------- *)

Cwd(name) == [root |-> "cwd", name |-> name, n |-> 0]

\* a name tempfile.mkdtemp / NamedTemporaryFile can hand out
Tmp(i) == [root |-> "tmp", name |-> "", n |-> i]

\* Python's None, for current_db, current_filename and unassigned locals
None == [root |-> "None", name |-> "", n |-> 0]

\* CHROMA_PATH of create_database.py
BUILD_CHROMA_PATH == Cwd("chroma")

\* CHROMA_PATH of query_data.py
QUERY_CHROMA_PATH == Cwd("gardens_chroma")

TmpNames == {Tmp(i) : i \in JobIds}

(* --------------------------- text helpers ------------------------------ *)

\* str.lower() on the characters the file names below are made of
LowerChar(c) ==
    CASE c = "A" -> "a"
      [] c = "B" -> "b"
      [] c = "D" -> "d"
      [] c = "M" -> "m"
      [] OTHER -> c

Lower(s) == [i \in 1..Len(s) |-> LowerChar(s[i])]

EndsWith(s, suffix) ==
    /\ Len(s) >= Len(suffix)
    /\ SubSeq(s, Len(s) - Len(suffix) + 1, Len(s)) = suffix

\* file.filename.lower().endswith('.md')
IsMarkdownName(filename) == EndsWith(Lower(filename), <<".", "m", "d">>)

IsSpace(c) == c \in {" ", "\t", "\n"}

RECURSIVE LStrip(_)
LStrip(s) == IF s # <<>> /\ IsSpace(Head(s)) THEN LStrip(Tail(s)) ELSE s

RECURSIVE RStrip(_)
RStrip(s) ==
    IF s # <<>> /\ IsSpace(s[Len(s)]) THEN RStrip(SubSeq(s, 1, Len(s) - 1)) ELSE s

\* str.strip()
Strip(s) == RStrip(LStrip(s))

(* ------------------------ documents and chunks ------------------------- *)

\* what RecursiveCharacterTextSplitter returns for each document of the
\* model ("d1", "d2" and the empty file "d0"): the lengths of its chunks,
\* in document order
ChunkLens(doc) ==
    CASE doc = "d1" -> <<CHUNK_SIZE, PREVIEW_LEN>>
      [] doc = "d2" -> <<CHUNK_SIZE, CHUNK_SIZE, CHUNK_SIZE, 150>>
      [] OTHER -> <<>>

\* split_documents: one chunk per piece, metadata inherited from the
\* document (its source path) plus the piece's position
SplitDocument(doc, source) ==
    [i \in 1..Len(ChunkLens(doc)) |->
        [doc |-> doc, idx |-> i, len |-> ChunkLens(doc)[i], source |-> source]]

RECURSIVE SplitDocuments(_)
SplitDocuments(documents) ==
    IF documents = <<>> THEN <<>>
    ELSE SplitDocument(Head(documents).doc, Head(documents).source)
            \o SplitDocuments(Tail(documents))

(* ----------------------------- queries --------------------------------- *)

QEmpty == <<>>
QBlank == <<" ", "\t">>
QHit == <<" ", "w", "h", "o">>
QMiss == <<"x">>

\* The relevance score, in hundredths, a deterministic Embedder and the
\* vector store give a query against a chunk.
Score(q, c) ==
    CASE q = QHit /\ c.doc = "d1" -> <<60, 95>>[c.idx]
      [] q = QHit /\ c.doc = "d2" -> <<69, THRESHOLD, THRESHOLD, 40>>[c.idx]
      [] q = QMiss /\ c.doc = "d1" -> <<69, 10>>[c.idx]
      [] q = QMiss /\ c.doc = "d2" -> <<50, 69, 20, 5>>[c.idx]
      [] OTHER -> 20

\* the position of the best entry of a non-empty index: the highest score,
\* the earliest entry among equals
BestPos(index, q) ==
    CHOOSE i \in 1..Len(index) :
        \A j \in 1..Len(index) :
            \/ Score(q, index[i]) > Score(q, index[j])
            \/ Score(q, index[i]) = Score(q, index[j]) /\ i <= j

Without(s, i) == SubSeq(s, 1, i - 1) \o SubSeq(s, i + 1, Len(s))

RECURSIVE TopK(_, _, _)
TopK(index, q, k) ==
    IF k = 0 \/ index = <<>> THEN <<>>
    ELSE LET i == BestPos(index, q)
         IN  <<[doc |-> index[i], score |-> Score(q, index[i])]>>
                \o TopK(Without(index, i), q, k - 1)

\* db.similarity_search_with_relevance_scores(query_text, k=3)
SimilaritySearch(index, q) == TopK(index, q, TOP_K)

(* ----------------------- the query pipeline ---------------------------- *)

\* doc.page_content of a chunk
PageContent(c) == [doc |-> c.doc, idx |-> c.idx]

\* the "\n\n---\n\n" between two chunks of the context
DELIMITER == [doc |-> "\n\n---\n\n", idx |-> 0]

RECURSIVE Join(_, _)
Join(sep, texts) ==
    IF Len(texts) <= 1 THEN texts
    ELSE <<Head(texts), sep>> \o Join(sep, Tail(texts))

\* a faulty context: only the results that pass the threshold are joined
ContextTextAboveThreshold(results) ==
    LET kept == SelectSeq(results, LAMBDA r : r.score >= THRESHOLD)
    IN  Join(DELIMITER, [i \in 1..Len(kept) |-> PageContent(kept[i].doc)])

\* "\n\n---\n\n".join([doc.page_content for doc, _score in results])
ContextText(results) ==
    Join(DELIMITER, [i \in 1..Len(results) |-> PageContent(results[i].doc)])

NoPrompt == [context |-> <<>>, question |-> <<>>]

\* prompt_template.format(context=context_text, question=query_text)
FormatPrompt(results, query_text) ==
    [context |-> ContextText(results), question |-> query_text]

\* a faulty gate: an empty result list is let through
GatedOutIgnoringEmpty(results) ==
    Len(results) > 0 /\ results[1].score < THRESHOLD

\* len(results) == 0 or results[0][1] < 0.7
GatedOut(results) == Len(results) = 0 \/ results[1].score < THRESHOLD

\* page_content[:200] + "..." if len(page_content) > 200 else page_content
Preview(c) ==
    IF c.len > PREVIEW_LEN
    THEN [doc |-> c.doc, idx |-> c.idx, chars |-> PREVIEW_LEN, ellipsis |-> TRUE]
    ELSE [doc |-> c.doc, idx |-> c.idx, chars |-> c.len, ellipsis |-> FALSE]

\* a faulty source list: only the results that pass the threshold
FormatSourcesAboveThreshold(results) ==
    LET kept == SelectSeq(results, LAMBDA r : r.score >= THRESHOLD)
    IN  [i \in 1..Len(kept) |->
            [content |-> Preview(kept[i].doc), score |-> kept[i].score,
             metadata |-> [source |-> kept[i].doc.source]]]

\* the sources of query_rag: content preview, score and metadata per result
FormatSources(results) ==
    [i \in 1..Len(results) |->
        [content |-> Preview(results[i].doc), score |-> results[i].score,
         metadata |-> [source |-> results[i].doc.source]]]

\* the sources of query_data.main: doc.metadata.get("source", None)
CliSources(results) == [i \in 1..Len(results) |-> results[i].doc.source]

NoAnswer == [text |-> "", prompt |-> NoPrompt]

CannedAnswer ==
    [text |-> "Unable to find relevant information in the document to answer your question.",
     prompt |-> NoPrompt]

\* response.content of model.invoke(prompt)
ModelInvoke(prompt) == [text |-> "generated", prompt |-> prompt]

(* ------------------------------ state ---------------------------------- *)

VARIABLES
    job,               \* the units of work: HTTP requests and CLI commands
    loop,              \* the job that holds the server's event loop, or 0
    current_db,        \* main.py's global: the directory of the current index
    current_filename,  \* main.py's global
    files,             \* the temporary files that exist
    dirs               \* the index directories that exist, each with its entries

vars == <<job, loop, current_db, current_filename, files, dirs>>

NoResponse ==
    [code |-> 0, success |-> FALSE, answer |-> NoAnswer, sources |-> <<>>,
     message |-> <<>>, detail |-> <<>>, filename |-> <<>>]

IdleJob ==
    [kind |-> "none", pc |-> "idle",
     filename |-> <<>>, size |-> 0, doc |-> "d0", query |-> <<>>,
     documents |-> <<>>,
     temp_file |-> None, temp_file_path |-> None, temp_db_dir |-> None,
     db |-> None, retrieved |-> FALSE, results |-> <<>>, prompt |-> NoPrompt,
     error |-> "", cleared |-> FALSE,
     nEmbed |-> 0, nSearch |-> 0, nCompl |-> 0,
     resp |-> NoResponse]

Exists(path) == path \in DOMAIN dirs

\* the directories with `path` created (empty) or overwritten by `index`
WithDir(d, path, index) ==
    [p \in DOMAIN d \cup {path} |-> IF p = path THEN index ELSE d[p]]

\* shutil.rmtree(path)
WithoutDir(d, path) == [p \in DOMAIN d \ {path} |-> d[p]]

\* the documents DirectoryLoader / TextLoader hand to the splitter
DataFile(doc) == [root |-> "data/books2", name |-> doc, n |-> 0]

LoadedFrom(docs) == [i \in 1..Len(docs) |-> [doc |-> docs[i], source |-> DataFile(docs[i])]]

\* an index that may already be at query_data.py's CHROMA_PATH when the
\* model starts
GardensCorpus == SplitDocuments(LoadedFrom(<<"d2">>))

Init ==
    /\ job = [j \in JobIds |-> IdleJob]
    /\ loop = 0
    /\ current_db = None
    /\ current_filename = None
    /\ files = {}
    /\ dirs \in {<<>>, WithDir(<<>>, QUERY_CHROMA_PATH, GardensCorpus)}

\* A finished job keeps its record until its response has been collected,
\* which is the next thing that happens; no handler reads the record of
\* another job.
ClosedJob == [IdleJob EXCEPT !.pc = "closed"]

\* job j is the next one to start: the jobs are numbered in the order they
\* start, and the responses of the finished ones have been collected
CanStart(j) ==
    /\ job[j].pc = "idle"
    /\ \A i \in JobIds : i < j => job[i].pc # "idle"
    /\ \A i \in JobIds : job[i].pc # "done"

\* no response waits to be collected
AllCollected == \A i \in JobIds : job[i].pc # "done"

HttpError(code, detail) == [NoResponse EXCEPT !.code = code, !.detail = detail]

(* ---------------------------- POST /upload ----------------------------- *)

FnLower == <<"a", ".", "m", "d">>
FnUpper == <<"B", ".", "M", "D">>
FnText == <<"a", ".", "t", "x", "t">>

\* the uploads the model draws from: file name, content (a document) and
\* the content's length in bytes
Uploads ==
    { [filename |-> FnLower, doc |-> "d1", size |-> 1200],
      [filename |-> FnUpper, doc |-> "d2", size |-> MAX_UPLOAD_BYTES],
      [filename |-> FnLower, doc |-> "d2", size |-> MAX_UPLOAD_BYTES + 1],
      [filename |-> FnText, doc |-> "d1", size |-> 3 * 1024 * 1024],
      [filename |-> FnLower, doc |-> "d0", size |-> 0] }

\* a faulty size test: exactly 2 MiB is refused too
TooLargeInclusive(size) == size >= MAX_UPLOAD_BYTES

\* len(content) > 2 * 1024 * 1024
TooLarge(size) == size > MAX_UPLOAD_BYTES

\* the entry of upload_file up to `await file.read()`: the file type test
UploadBegin(j) ==
    /\ loop = 0
    /\ CanStart(j)
    /\ \E u \in Uploads :
        LET started == [job[j] EXCEPT !.kind = "upload", !.filename = u.filename,
                                      !.size = u.size, !.doc = u.doc]
        IN  IF ~IsMarkdownName(u.filename)
            THEN job' = [job EXCEPT ![j] = [started EXCEPT
                    !.pc = "done",
                    !.resp = HttpError(400, <<"Only Markdown (.md) files are supported">>)]]
            ELSE job' = [job EXCEPT ![j] = [started EXCEPT !.pc = "reading"]]
    /\ UNCHANGED <<loop, current_db, current_filename, files, dirs>>

\* the except branch of the inner try: `if current_db: current_db = None`
SlotAfterBuildError(db) == None

\* The names tempfile hands out are opaque and never one that exists: the
\* model takes the first name not in use.
FirstFresh(used) ==
    {Tmp(i) : i \in {k \in JobIds : Tmp(k) \notin used
                                    /\ \A m \in 1..(k - 1) : Tmp(m) \in used}}

\* tempfile.NamedTemporaryFile(mode='wb', suffix='.md', delete=False)
FreshFiles == FirstFresh(files)

FreshDirs == FirstFresh(DOMAIN dirs)

\* a faulty scratch directory: a fixed one, shared by all uploads
ScratchDirsFixed == {Tmp(1)}

\* tempfile.mkdtemp(): a directory that did not exist
ScratchDirs == FreshDirs

\* upload_file from the return of `await file.read()` to the call of the
\* Embedder inside create_vector_database: the size test, the temporary
\* file, the scratch directory, loading and splitting
UploadRead(j) ==
    /\ AllCollected
    /\ loop = 0
    /\ job[j].kind = "upload" /\ job[j].pc = "reading"
    /\ IF TooLarge(job[j].size)
       THEN /\ job' = [job EXCEPT ![j].pc = "done",
                    ![j].resp = HttpError(400, <<"File size must be under 2MB">>)]
            /\ UNCHANGED <<loop, current_db, current_filename, files, dirs>>
       ELSE \E f \in FreshFiles :
            \* temp_file.write(content) raises: the outer `except Exception`
            \/ /\ files' = files \cup {f}
               /\ job' = [job EXCEPT ![j].pc = "done", ![j].temp_file = f,
                    ![j].error = "write error",
                    ![j].resp = HttpError(500, <<"Upload failed: ", "write error">>)]
               /\ UNCHANGED <<loop, current_db, current_filename, dirs>>
            \* mkdtemp raises: the inner except and finally
            \/ /\ current_db' = SlotAfterBuildError(current_db)
               /\ files' = files
               /\ job' = [job EXCEPT ![j].pc = "done", ![j].temp_file = f,
                    ![j].temp_file_path = f, ![j].error = "mkdtemp error",
                    ![j].resp = HttpError(500, <<"Error processing file: ", "mkdtemp error">>)]
               /\ UNCHANGED <<loop, current_filename, dirs>>
            \* the build is entered: the Embedder is called
            \/ \E t \in ScratchDirs :
               /\ files' = files \cup {f}
               /\ dirs' = IF Exists(t) THEN dirs ELSE WithDir(dirs, t, <<>>)
               /\ loop' = j
               /\ job' = [job EXCEPT ![j].pc = "building", ![j].temp_file = f,
                    ![j].temp_file_path = f, ![j].temp_db_dir = t,
                    ![j].documents = <<[doc |-> job[j].doc, source |-> f]>>,
                    ![j].nEmbed = 1]
               /\ UNCHANGED <<current_db, current_filename>>

\* Chroma.from_documents(chunks, embedding, persist_directory=path): the
\* entries of the chunks are added to the collection at path
FromDocuments(d, path, chunks) ==
    WithDir(d, path, (IF path \in DOMAIN d THEN d[path] ELSE <<>>) \o chunks)

\* the finally of the inner try: os.unlink(temp_file_path) if it exists
Unlink(fs, path) == fs \ {path}

\* the return of the Embedder / vector store to create_vector_database,
\* and the rest of upload_file
UploadBuildReturn(j) ==
    /\ AllCollected
    /\ loop = j
    /\ job[j].kind = "upload" /\ job[j].pc = "building"
    /\ files' = Unlink(files, job[j].temp_file_path)
    /\ loop' = 0
    /\ \/ /\ dirs' = FromDocuments(dirs, job[j].temp_db_dir,
                                   SplitDocuments(job[j].documents))
          /\ current_db' = job[j].temp_db_dir
          /\ current_filename' = job[j].filename
          /\ job' = [job EXCEPT ![j].pc = "done",
                ![j].resp = [NoResponse EXCEPT !.code = 200, !.success = TRUE,
                    !.message = <<"File processed successfully">>,
                    !.filename = job[j].filename]]
       \/ /\ current_db' = SlotAfterBuildError(current_db)
          /\ job' = [job EXCEPT ![j].pc = "done", ![j].error = "embedder error",
                ![j].resp = HttpError(500, <<"Error processing file: ", "embedder error">>)]
          /\ UNCHANGED <<current_filename, dirs>>

(* ----------------------------- POST /query ----------------------------- *)

HttpQueries == {QBlank, QHit, QMiss}

\* not request.query.strip()
IsBlankQuery(query) == Strip(query) = <<>>

\* a faulty slot test: the slot is never found empty
SlotEmptyNever(db) == FALSE

\* not current_db
SlotEmpty(db) == db = None

\* a faulty failure response: the error is reported as a no-match
QueryFailedAsNoMatch(e) ==
    [NoResponse EXCEPT !.code = 200, !.success = TRUE, !.answer = CannedAnswer]

\* the `except Exception` of query_document
QueryFailed(e) ==
    [NoResponse EXCEPT !.code = 200, !.success = FALSE,
                       !.message = <<"Query failed: ", e>>]

\* query_document up to the similarity search of query_rag: the slot test,
\* the empty-query test, the call of the Embedder / vector store
QueryBegin(j) ==
    /\ loop = 0
    /\ CanStart(j)
    /\ \E q \in HttpQueries :
        LET started == [job[j] EXCEPT !.kind = "query", !.query = q]
        IN  IF SlotEmpty(current_db)
            THEN /\ job' = [job EXCEPT ![j] = [started EXCEPT !.pc = "done",
                        !.resp = HttpError(400,
                            <<"No document uploaded. Please upload a document first.">>)]]
                 /\ loop' = loop
            ELSE IF IsBlankQuery(q)
            THEN /\ job' = [job EXCEPT ![j] = [started EXCEPT !.pc = "done",
                        !.resp = HttpError(400, <<"Query cannot be empty">>)]]
                 /\ loop' = loop
            ELSE /\ job' = [job EXCEPT ![j] = [started EXCEPT !.pc = "searching",
                        !.db = current_db, !.nSearch = 1]]
                 /\ loop' = j
    /\ UNCHANGED <<current_db, current_filename, files, dirs>>

\* the index a Chroma handle reads
IndexAt(path) == IF Exists(path) THEN dirs[path] ELSE <<>>

\* the return of the similarity search to query_rag: the gate, the prompt
\* and the call of the Completion API; or the exception, caught by
\* query_document
QuerySearchReturn(j) ==
    /\ AllCollected
    /\ loop = j
    /\ job[j].kind = "query" /\ job[j].pc = "searching"
    /\ \/ LET results == SimilaritySearch(IndexAt(job[j].db), job[j].query)
          IN  IF GatedOut(results)
              THEN /\ job' = [job EXCEPT ![j].pc = "done", ![j].results = results,
                        ![j].retrieved = TRUE,
                        ![j].resp = [NoResponse EXCEPT !.code = 200, !.success = TRUE,
                                        !.answer = CannedAnswer, !.sources = <<>>]]
                   /\ loop' = 0
              ELSE /\ job' = [job EXCEPT ![j].pc = "completing", ![j].results = results,
                        ![j].retrieved = TRUE,
                        ![j].prompt = FormatPrompt(results, job[j].query),
                        ![j].nCompl = 1]
                   /\ loop' = loop
       \/ /\ job' = [job EXCEPT ![j].pc = "done", ![j].error = "embedder error",
                        ![j].resp = QueryFailed("embedder error")]
          /\ loop' = 0
    /\ UNCHANGED <<current_db, current_filename, files, dirs>>

\* the return of model.invoke to query_rag and the response of
\* query_document; or the exception, caught by query_document
QueryCompletionReturn(j) ==
    /\ AllCollected
    /\ loop = j
    /\ job[j].kind = "query" /\ job[j].pc = "completing"
    /\ \/ job' = [job EXCEPT ![j].pc = "done",
                ![j].resp = [NoResponse EXCEPT !.code = 200, !.success = TRUE,
                                !.answer = ModelInvoke(job[j].prompt),
                                !.sources = FormatSources(job[j].results)]]
       \/ job' = [job EXCEPT ![j].pc = "done", ![j].error = "completion error",
                ![j].resp = QueryFailed("completion error")]
    /\ loop' = 0
    /\ UNCHANGED <<current_db, current_filename, files, dirs>>

(* ----------------------------- GET /health ----------------------------- *)

HealthCheck(j) ==
    /\ loop = 0
    /\ CanStart(j)
    /\ job' = [job EXCEPT ![j].kind = "health", ![j].pc = "done",
                ![j].resp = [NoResponse EXCEPT !.code = 200,
                                !.message = <<"healthy">>]]
    /\ UNCHANGED <<loop, current_db, current_filename, files, dirs>>

(* ------------------------ the batch commands --------------------------- *)

\* The commands are run from one terminal, one after the other.
TerminalFree ==
    \A i \in JobIds :
        job[i].kind \in {"cli_query", "cli_build"} => job[i].pc \in {"done", "closed"}

CliQueries == {QEmpty, QHit, QMiss}

\* exit status 1 with the traceback of an uncaught exception
Crashed(e) == [NoResponse EXCEPT !.code = 1, !.detail = <<"Traceback", e>>]

\* query_data.main up to the similarity search: argument parsing, the
\* Chroma handle on CHROMA_PATH, the call of the Embedder / vector store
CliQueryBegin(j) ==
    /\ CanStart(j)
    /\ TerminalFree
    /\ \E q \in CliQueries :
        job' = [job EXCEPT ![j].kind = "cli_query", ![j].query = q,
                    ![j].pc = "searching", ![j].db = QUERY_CHROMA_PATH,
                    ![j].nSearch = 1]
    /\ dirs' = IF Exists(QUERY_CHROMA_PATH) THEN dirs
               ELSE WithDir(dirs, QUERY_CHROMA_PATH, <<>>)
    /\ UNCHANGED <<loop, current_db, current_filename, files>>

\* the return of the similarity search to query_data.main: the gate, the
\* prompt and the call of the Completion API; or the uncaught exception
CliQuerySearchReturn(j) ==
    /\ AllCollected
    /\ job[j].kind = "cli_query" /\ job[j].pc = "searching"
    /\ \/ LET results == SimilaritySearch(IndexAt(job[j].db), job[j].query)
          IN  IF GatedOut(results)
              THEN job' = [job EXCEPT ![j].pc = "done", ![j].results = results,
                        ![j].retrieved = TRUE,
                        ![j].resp = [NoResponse EXCEPT !.success = TRUE,
                            !.message = <<"Unable to find matching results.">>]]
              ELSE job' = [job EXCEPT ![j].pc = "completing", ![j].results = results,
                        ![j].retrieved = TRUE,
                        ![j].prompt = FormatPrompt(results, job[j].query),
                        ![j].nCompl = 1]
       \/ job' = [job EXCEPT ![j].pc = "done", ![j].error = "embedder error",
                    ![j].resp = Crashed("embedder error")]
    /\ UNCHANGED <<loop, current_db, current_filename, files, dirs>>

\* the return of model.invoke to query_data.main and the printed answer;
\* or the uncaught exception
CliQueryCompletionReturn(j) ==
    /\ AllCollected
    /\ job[j].kind = "cli_query" /\ job[j].pc = "completing"
    /\ \/ job' = [job EXCEPT ![j].pc = "done",
                ![j].resp = [NoResponse EXCEPT !.success = TRUE,
                                !.message = <<"Response:">>,
                                !.answer = ModelInvoke(job[j].prompt),
                                !.sources = CliSources(job[j].results)]]
       \/ job' = [job EXCEPT ![j].pc = "done", ![j].error = "completion error",
                    ![j].resp = Crashed("completion error")]
    /\ UNCHANGED <<loop, current_db, current_filename, files, dirs>>

\* the document sets DATA_PATH may hold when the build command runs
DocSets == {<<"d1">>, <<"d2", "d1">>}

\* a faulty clearing step: the existing index is kept
ClearExistingSkipped(d, path) == d

\* if os.path.exists(CHROMA_PATH): shutil.rmtree(CHROMA_PATH)
ClearExisting(d, path) == IF path \in DOMAIN d THEN WithoutDir(d, path) ELSE d

\* generate_data_store up to the call of the Embedder in save_to_chroma:
\* load_documents, split_text, the clearing of CHROMA_PATH, the new store
CliBuildBegin(j) ==
    /\ CanStart(j)
    /\ TerminalFree
    /\ \E ds \in DocSets :
        job' = [job EXCEPT ![j].kind = "cli_build", ![j].documents = LoadedFrom(ds),
                    ![j].pc = "building", ![j].db = BUILD_CHROMA_PATH,
                    ![j].cleared = Exists(BUILD_CHROMA_PATH),
                    ![j].nEmbed = 1]
    /\ dirs' = LET cleared == ClearExisting(dirs, BUILD_CHROMA_PATH)
               IN  FromDocuments(cleared, BUILD_CHROMA_PATH, <<>>)
    /\ UNCHANGED <<loop, current_db, current_filename, files>>

\* the return of the Embedder / vector store to save_to_chroma: the entries
\* are written and persisted; or the uncaught exception
CliBuildReturn(j) ==
    /\ AllCollected
    /\ job[j].kind = "cli_build" /\ job[j].pc = "building"
    /\ \/ /\ dirs' = FromDocuments(dirs, job[j].db, SplitDocuments(job[j].documents))
          /\ job' = [job EXCEPT ![j].pc = "done",
                ![j].resp = [NoResponse EXCEPT !.success = TRUE,
                                !.message = <<"Saved chunks">>]]
       \/ /\ job' = [job EXCEPT ![j].pc = "done", ![j].error = "embedder error",
                    ![j].resp = Crashed("embedder error")]
          /\ dirs' = dirs
    /\ UNCHANGED <<loop, current_db, current_filename, files>>

(* --------------------------- specification ----------------------------- *)

\* the client (or the terminal) has the response of job j
Collect(j) ==
    /\ job[j].pc = "done"
    /\ job' = [job EXCEPT ![j] = ClosedJob]
    /\ UNCHANGED <<loop, current_db, current_filename, files, dirs>>

Next ==
    \E j \in JobIds :
        \/ UploadBegin(j)
        \/ UploadRead(j)
        \/ UploadBuildReturn(j)
        \/ QueryBegin(j)
        \/ QuerySearchReturn(j)
        \/ QueryCompletionReturn(j)
        \/ HealthCheck(j)
        \/ CliQueryBegin(j)
        \/ CliQuerySearchReturn(j)
        \/ CliQueryCompletionReturn(j)
        \/ CliBuildBegin(j)
        \/ CliBuildReturn(j)
        \/ Collect(j)

Spec == Init /\ [][Next]_vars

(* ------------------------------ claims --------------------------------- *)

IsQueryJob(j) == job[j].kind \in {"query", "cli_query"}

\* the no-match outcome of a query, on either path
NoMatchOutcome(j) ==
    /\ job[j].pc = "done"
    /\ job[j].resp.sources = <<>>
    /\ IF job[j].kind = "query"
       THEN /\ job[j].resp.code = 200 /\ job[j].resp.success
            /\ job[j].resp.answer = CannedAnswer
       ELSE /\ job[j].resp.message = <<"Unable to find matching results.">>
            /\ job[j].resp.answer = NoAnswer

\* no result, or no result with a score of 0.7 or more
NothingRelevant(results) ==
    \A i \in 1..Len(results) : results[i].score < THRESHOLD

\* C1: on the HTTP path and on the batch path, a query whose similarity
\* search returned no result, or results whose highest score is below 0.7,
\* ends in the no-match outcome (the canned answer, no sources) and the
\* Completion API is never called for it.
C1_RelevanceGate ==
    \A j \in JobIds :
        (IsQueryJob(j) /\ job[j].retrieved /\ NothingRelevant(job[j].results))
            => (NoMatchOutcome(j) /\ job[j].nCompl = 0)

\* a query over a non-empty index was gated out on the HTTP path
C1_Witness ==
    \E j \in JobIds :
        /\ job[j].kind = "query" /\ job[j].retrieved
        /\ Len(job[j].results) > 0
        /\ NothingRelevant(job[j].results)
        /\ NoMatchOutcome(j)

IsDescending(scores) ==
    \A a, b \in 1..Len(scores) : a < b => scores[a] >= scores[b]

MinOf(a, b) == IF a < b THEN a ELSE b

\* the Completion API answered the query of job j
Answered(j) ==
    /\ IsQueryJob(j) /\ job[j].pc = "done"
    /\ job[j].resp.success
    /\ job[j].resp.answer.text = "generated"

\* C2: when the gate passes and the Completion API succeeds, the answer's
\* source list has min(k, number of index entries) entries, one per
\* retrieved result and in the order of retrieval, which is by descending
\* score; the retrieved results are the best of the index.
C2_SourcesMatchResults ==
    \A j \in JobIds :
        Answered(j) =>
            LET results == job[j].results
                sources == job[j].resp.sources
                index == IndexAt(job[j].db)
            IN  /\ Len(sources) = MinOf(TOP_K, Len(index))
                /\ Len(sources) = Len(results)
                /\ results[1].score >= THRESHOLD
                /\ IsDescending([i \in 1..Len(results) |-> results[i].score])
                /\ \A i \in 1..Len(results) :
                    /\ \E n \in 1..Len(index) : index[n] = results[i].doc
                    /\ results[i].score = Score(job[j].query, results[i].doc)
                    /\ IF job[j].kind = "query"
                       THEN /\ sources[i].score = results[i].score
                            /\ sources[i].content = Preview(results[i].doc)
                       ELSE sources[i] = results[i].doc.source
                /\ \A n \in 1..Len(index) :
                    Score(job[j].query, index[n]) <= results[1].score

\* an answer over an index of four chunks: three sources, one of them below
\* the threshold
C2_Witness ==
    \E j \in JobIds :
        /\ Answered(j) /\ job[j].kind = "query"
        /\ Len(IndexAt(job[j].db)) > TOP_K
        /\ Len(job[j].resp.sources) = TOP_K
        /\ job[j].resp.sources[TOP_K].score < THRESHOLD

\* C3: a query that is empty or only whitespace is rejected before
\* retrieval on every entry point: neither the similarity search nor the
\* Completion API is called for it.
C3_BlankQueryNeverSearched ==
    \A j \in JobIds :
        (IsQueryJob(j) /\ Strip(job[j].query) = <<>>)
            => (job[j].nSearch = 0 /\ job[j].nCompl = 0)

NotReady ==
    HttpError(400, <<"No document uploaded. Please upload a document first.">>)

EmptyQueryError == HttpError(400, <<"Query cannot be empty">>)

\* C4: a POST /query handled while the slot holds no index is answered with
\* the not-ready error, HTTP 400 "No document uploaded", before any
\* similarity search or Completion API call; that response is given in no
\* other case and differs from the empty-query error and the failure
\* response.
C4_NotReady ==
    [][\A j \in JobIds :
        (job[j].pc = "idle" /\ job'[j].kind = "query") =>
            /\ current_db = None =>
                /\ job'[j].pc = "done"
                /\ job'[j].resp = NotReady
                /\ job'[j].nSearch = 0 /\ job'[j].nCompl = 0
                /\ job'[j].resp # EmptyQueryError
                /\ \A e \in {"embedder error", "completion error"} :
                        job'[j].resp # QueryFailed(e)
            /\ current_db # None => job'[j].resp # NotReady]_vars

\* a query was refused as not ready after an upload had built an index and
\* a later upload failed
C4_Witness ==
    \E j \in JobIds :
        /\ job[j].kind = "query" /\ job[j].pc = "done"
        /\ job[j].resp = NotReady
        /\ current_db = None
        /\ \E t \in TmpNames : Exists(t) /\ dirs[t] # <<>>

\* the uploads the claim says are refused: the name does not end in .md,
\* whatever the case of its letters, or the content is longer than 2 MiB
Refusable(filename, size) ==
    \/ ~(Len(filename) >= 3
            /\ Lower(SubSeq(filename, Len(filename) - 2, Len(filename)))
                    = <<".", "m", "d">>)
    \/ size > 2097152

\* C5: an upload whose name does not end in .md (case-insensitive) or whose
\* content is larger than 2 MiB is refused with HTTP 400 and a detail
\* message, and the step that refuses it creates no temporary file and no
\* scratch directory, calls no Embedder and leaves the current index and
\* the current filename as they were; no other upload is refused that way
\* (a content of exactly 2 MiB is accepted), and a refusable upload never
\* reaches the index build.
C5_RefusedBeforeProcessing ==
    [][\A j \in JobIds :
        /\ (job'[j].kind = "upload" /\ job[j].pc # "done" /\ job'[j].pc = "done"
                /\ Refusable(job'[j].filename, job'[j].size))
            => /\ job'[j].resp.code = 400
               /\ job'[j].resp.detail # <<>>
               /\ job'[j].nEmbed = 0
               /\ job'[j].temp_file = None /\ job'[j].temp_db_dir = None
               /\ UNCHANGED <<current_db, current_filename, files, dirs>>
        /\ (job'[j].kind = "upload" /\ job'[j].pc = "done"
                /\ job'[j].resp.code = 400)
            => Refusable(job'[j].filename, job'[j].size)
        /\ (job'[j].kind = "upload" /\ job'[j].pc = "building")
            => ~Refusable(job'[j].filename, job'[j].size)]_vars

\* an upload one byte over 2 MiB was refused while an index was current
C5_Witness ==
    \E j \in JobIds :
        /\ job[j].kind = "upload" /\ job[j].pc = "done"
        /\ job[j].size = MAX_UPLOAD_BYTES + 1
        /\ job[j].resp = HttpError(400, <<"File size must be under 2MB">>)
        /\ current_db # None

\* C6: when the upload handler has exited, on any path, the temporary copy
\* of the uploaded file and the scratch index directory it created are
\* gone.
C6_TemporariesRemoved ==
    \A j \in JobIds :
        (job[j].kind = "upload" /\ job[j].pc = "done")
            => /\ job[j].temp_file \notin files
               /\ ~Exists(job[j].temp_db_dir)

\* an external call of the query of job j raised
Raised(j) == job[j].error # ""

\* C7: when the similarity search or the Completion API raises during a
\* POST /query, the response reports failure with the underlying message
\* and carries no answer and no sources; each of the two was called at most
\* once; and only such a response has success = false, so it differs from
\* an answer and from the no-match answer.
C7_FailureReported ==
    \A j \in JobIds :
        job[j].kind = "query" =>
            /\ job[j].nSearch <= 1 /\ job[j].nCompl <= 1
            /\ Raised(j) =>
                /\ job[j].pc = "done"
                /\ job[j].resp.code = 200
                /\ ~job[j].resp.success
                /\ job[j].resp.message = <<"Query failed: ", job[j].error>>
                /\ job[j].resp.answer = NoAnswer
                /\ job[j].resp.sources = <<>>
            /\ (job[j].pc = "done" /\ job[j].resp.code = 200
                    /\ ~job[j].resp.success) => Raised(j)

\* the Completion API raised after the gate had passed
C7_Witness ==
    \E j \in JobIds :
        /\ job[j].kind = "query" /\ job[j].pc = "done"
        /\ job[j].error = "completion error"
        /\ job[j].retrieved /\ Len(job[j].results) > 0
        /\ ~job[j].resp.success

\* job j waits for the Embedder, the vector store or the Completion API
InExternalCall(j) ==
    /\ job[j].kind \in {"upload", "query"}
    /\ job[j].pc \in {"building", "searching", "completing"}

\* C8: while a request waits on an Embedder or Completion API call, a
\* health check that arrives can be started and completed.
C8_ServingNotBlocked ==
    \A j \in JobIds :
        (InExternalCall(j) /\ \E i \in JobIds : job[i].pc = "idle")
            => ENABLED (\E i \in JobIds : HealthCheck(i))

\* the index holds the chunks of document doc, read from some temporary
\* file, and nothing else
HoldsOnly(index, doc) ==
    \E f \in TmpNames : index = SplitDocument(doc, f)

\* the slot holds the index of one accepted upload, under its file name
SlotHoldsOneUpload ==
    current_db # None =>
        \E u \in Uploads :
            /\ ~Refusable(u.filename, u.size)
            /\ u.filename = current_filename
            /\ HoldsOnly(IndexAt(current_db), u.doc)

\* a query reads the index of the slot and retrieves chunks of it only
QueryReadsSlot ==
    \A j \in JobIds :
        (job[j].kind = "query" /\ job[j].db # None) =>
            /\ job[j].db = current_db
            /\ \A i \in 1..Len(job[j].results) :
                \E n \in 1..Len(IndexAt(current_db)) :
                    IndexAt(current_db)[n] = job[j].results[i].doc

\* the upload of job j takes its scratch directory in this step
TakesScratchDir(j) ==
    job[j].kind = "upload" /\ job[j].pc = "reading" /\ job'[j].pc = "building"

\* the upload of job j succeeds in this step
UploadSucceeds(j) ==
    /\ job[j].kind = "upload" /\ job[j].pc = "building"
    /\ job'[j].pc = "done" /\ job'[j].resp.code = 200

\* C9: a successful upload of a document replaces the current index
\* wholesale: the index was built in a location that did not exist before
\* (so it differs from that of every earlier upload, none being removed),
\* the slot then holds the entries of the chunks of that document only,
\* under its file name, whichever upload held the slot before; and every
\* query reads the index of the slot, so it retrieves chunks of the last
\* successfully uploaded document only.
C9_ReplacedWholesale ==
    /\ [](SlotHoldsOneUpload /\ QueryReadsSlot)
    /\ [][\A j \in JobIds :
            /\ TakesScratchDir(j) =>
                /\ job'[j].temp_db_dir \notin DOMAIN dirs
                /\ job'[j].temp_db_dir # current_db
                /\ dirs'[job'[j].temp_db_dir] = <<>>
            /\ UploadSucceeds(j) =>
                /\ current_db' = job[j].temp_db_dir
                /\ current_filename' = job[j].filename
                /\ dirs'[current_db'] =
                        SplitDocument(job[j].doc, job[j].temp_file_path)]_vars

\* a query retrieved chunks from the index of a second upload while the
\* directory of the first, with the chunks of another document, still
\* exists
C9_Witness ==
    \E j \in JobIds :
        /\ job[j].kind = "query" /\ job[j].retrieved
        /\ Len(job[j].results) > 0
        /\ \E t \in TmpNames :
            /\ Exists(t) /\ t # current_db /\ dirs[t] # <<>>
            /\ dirs[t][1].doc # job[j].results[1].doc.doc

\* the build command of job j starts in this step
BuildStarts(j) ==
    job[j].pc = "idle" /\ job'[j].kind = "cli_build"

\* the build command of job j succeeds in this step
BuildSucceeds(j) ==
    /\ job[j].kind = "cli_build" /\ job[j].pc = "building"
    /\ job'[j].pc = "done" /\ job'[j].resp.success

\* C10: the batch build is a full rebuild: when it starts, whatever index
\* is at the index location is discarded, and when it succeeds the index
\* holds exactly the entries of the chunks given to that build, so a build
\* of the same documents leaves the same contents and the same results for
\* every query, whatever was built before.
C10_FullRebuild ==
    [][\A j \in JobIds :
        /\ BuildStarts(j) => dirs'[BUILD_CHROMA_PATH] = <<>>
        /\ BuildSucceeds(j) =>
            LET given == SplitDocuments(job[j].documents)
            IN  /\ dirs'[BUILD_CHROMA_PATH] = given
                /\ \A q \in CliQueries :
                    SimilaritySearch(dirs'[BUILD_CHROMA_PATH], q)
                        = SimilaritySearch(given, q)]_vars

\* a build of one document succeeded after clearing an existing index
C10_Witness ==
    \E j \in JobIds :
        /\ job[j].kind = "cli_build" /\ job[j].pc = "done"
        /\ job[j].resp.success
        /\ job[j].cleared
        /\ job[j].documents = LoadedFrom(<<"d1">>)
        /\ dirs[BUILD_CHROMA_PATH] = SplitDocuments(job[j].documents)

\* the build command has left a non-empty index at its index location
BuiltIndexPresent ==
    Exists(BUILD_CHROMA_PATH) /\ dirs[BUILD_CHROMA_PATH] # <<>>

\* C11: the build command and the CLI query command use the same index
\* location: once a build of a non-empty document set has succeeded, a CLI
\* query opens that location and searches exactly the entries the build
\* wrote.
C11_QueryReadsBuiltIndex ==
    \A j \in JobIds :
        (job[j].kind = "cli_query" /\ BuiltIndexPresent) =>
            /\ job[j].db = BUILD_CHROMA_PATH
            /\ IndexAt(job[j].db) = dirs[BUILD_CHROMA_PATH]
            /\ job[j].retrieved =>
                job[j].results =
                    SimilaritySearch(dirs[BUILD_CHROMA_PATH], job[j].query)

\* the prompt of the query of job j has been submitted to the Completion API
PromptSubmitted(j) == IsQueryJob(j) /\ job[j].nCompl = 1

\* C12: when the gate passes, the context submitted to the Completion API
\* is the text of every retrieved result, those below 0.7 included, in the
\* order of retrieval (descending score), with the fixed delimiter between
\* consecutive texts and nothing dropped; the prompt holds that context and
\* the query as it was given; and the chunks of the context are the chunks
\* cited in the source list, in the same order.
C12_ContextIsAllResults ==
    \A j \in JobIds :
        PromptSubmitted(j) =>
            LET results == job[j].results
                context == job[j].prompt.context
                n == Len(job[j].results)
            IN  /\ n > 0
                /\ results = SimilaritySearch(IndexAt(job[j].db), job[j].query)
                /\ IsDescending([i \in 1..n |-> results[i].score])
                /\ job[j].prompt.question = job[j].query
                /\ Len(context) = 2 * n - 1
                /\ \A i \in 1..n :
                    /\ context[2 * i - 1].doc = results[i].doc.doc
                    /\ context[2 * i - 1].idx = results[i].doc.idx
                /\ \A i \in 1..(n - 1) : context[2 * i] = DELIMITER
                /\ Answered(j) =>
                    /\ job[j].resp.answer.prompt = job[j].prompt
                    /\ Len(job[j].resp.sources) = n
                    /\ \A i \in 1..n :
                        IF job[j].kind = "query"
                        THEN /\ job[j].resp.sources[i].content.doc
                                    = context[2 * i - 1].doc
                             /\ job[j].resp.sources[i].content.idx
                                    = context[2 * i - 1].idx
                        ELSE job[j].resp.sources[i] = results[i].doc.source

\* an answer whose context holds three chunks, the last one below the
\* threshold, for a query that starts with a blank
C12_Witness ==
    \E j \in JobIds :
        /\ Answered(j) /\ job[j].kind = "query"
        /\ Len(job[j].prompt.context) = 2 * TOP_K - 1
        /\ job[j].results[TOP_K].score < THRESHOLD
        /\ job[j].prompt.question = QHit
        /\ Strip(QHit) # QHit

\* C13: the current-index slot is written only by a successful upload: a
\* step of anything else (an upload that fails or is refused, a query, a
\* health check, a batch command) leaves the slot and the current filename
\* holding what they held, so an uploaded document stays queryable after a
\* later upload fails.
C13_SlotWrittenOnlyBySuccess ==
    [][\/ \E j \in JobIds : UploadSucceeds(j)
       \/ /\ current_db' = current_db
          /\ current_filename' = current_filename]_vars

====
